---- MODULE Spec2Model ----
(***************************************************************************)
(* Model of src/index.ts: the Pulumi program that provisions a CloudHSM    *)
(* cluster, waits for it to become UNINITIALIZED, initializes it and waits *)
(* for INITIALIZED (getHsmClusterStatus, initializeHsmCluster).            *)
(*                                                                         *)
(* Two specifications share the waiter's code:                             *)
(*   Spec        the top-level workflow (export =, lines 9-94), with a     *)
(*               provider that may answer every query in any way;          *)
(*   SpecWaiter  two invocations of getHsmClusterStatus with arguments     *)
(*               drawn from small sets, both fed the same scripted         *)
(*               sequence of provider responses.                           *)
(***************************************************************************)
EXTENDS Integers, Sequences, FiniteSets

VARIABLES
    dryRun,          \* pulumi.runtime.isDryRun()
    pc,              \* position of the program's main function (export =)
    clusterIdKnown,  \* cluster.id (an Output) has resolved
    waiter,          \* per call of getHsmClusterStatus: its polling state
    signedCert,      \* hsmSignedCert: "none" | "declared" | "resolved"
    initApply,       \* the apply of initializeHsmCluster (lines 115-123)
    initCalls,       \* number of initializeCluster commands sent
    hsm2,            \* the Hsm "hsm2": "none" | "declared" | "created"
    script           \* SpecWaiter only: the provider's scripted responses

vars == <<dryRun, pc, clusterIdKnown, waiter, signedCert, initApply, initCalls, hsm2, script>>

-----------------------------------------------------------------------------
(* Bounds of the model *)

\* longest first run of a scripted provider (its first response is repeated
\* 0..MaxRun times before it switches to its second response for good)
MaxRun == 8

-----------------------------------------------------------------------------
(* Values *)

\* the calls of getHsmClusterStatus: in the workflow call 1 is line 38
\* (uninitializedCluster) and call 2 is line 126 (inside initializeHsmCluster)
Calls == {1, 2}

\* the id the cluster resource resolves to, and the id of some other cluster
TheClusterId == "abc-123"
OtherClusterId == "other-id"

\* arrays passed as targetStatuses (as sets: includes() is membership)
TargetSets == {{"UNINITIALIZED"}, {"INITIALIZED"}, {"UNINITIALIZED", "INITIALIZED"}}

\* values passed as timeoutSeconds; 0 stands for an omitted argument
\* (undefined and 0 are both falsy at line 136)
TimeoutInputs == {0, 30, 120}

Rec(id, s) == [ClusterId |-> id, State |-> s]

\* a describeClusters outcome: a rejected call (err), a result without Clusters,
\* or a result with a list of cluster records
Response(e, h, cs) == [err |-> e, hasClusters |-> h, Clusters |-> cs]

Failure == Response(TRUE, FALSE, <<>>)
NoClusters == Response(FALSE, FALSE, <<>>)
Listing(cs) == Response(FALSE, TRUE, cs)

Responses ==
    {Failure, NoClusters, Listing(<<>>), Listing(<<Rec(OtherClusterId, "UNINITIALIZED")>>)}
    \cup {Listing(<<Rec(TheClusterId, s)>>) : s \in {"CREATE_IN_PROGRESS", "UNINITIALIZED"}}
    \cup {Listing(<<Rec(OtherClusterId, "UNINITIALIZED"), Rec(TheClusterId, "INITIALIZED")>>)}

\* a scripted provider: `first` on queries 1..n, `then` on every later query
Scripts == [first : Responses, n : 0..MaxRun, then : Responses]

ScriptAt(s, k) == IF k <= s.n THEN s.first ELSE s.then

NoScript == [first |-> NoClusters, n |-> 0, then |-> NoClusters]

-----------------------------------------------------------------------------
(* getHsmClusterStatus *)

DelaySeconds == 10000 \div 1000

DefaultTimeoutSeconds == 10 * 60

maxAttempts == (1 * 60) \div 10

NoSnapshot == [clusterStatus |-> "", clusterId |-> "", cluster |-> Rec("", "")]

\* st: "idle"       not called
\*     "undefined"  returned undefined (dry run)
\*     "loop"       the apply is registered or at the head of while (true)
\*     "sleep"      in await sleep(10000)
\*     "ok"         the apply returned a snapshot
\*     "NotFound" | "Timeout" | "ProviderError"   the apply threw
IdleWaiter ==
    [st |-> "idle", id |-> "", targetStatuses |-> {}, timeoutSeconds |-> 0,
     attempts |-> 0, queries |-> 0, sleeps |-> 0, snapshot |-> NoSnapshot]

Terminal(w) == w.st \in {"undefined", "ok", "NotFound", "Timeout", "ProviderError"}

\* lines 136-138
EffectiveTimeout(timeoutSeconds) ==
    IF timeoutSeconds = 0 THEN DefaultTimeoutSeconds ELSE timeoutSeconds

\* getHsmClusterStatus without the test of lines 132-134
StartWaiterAlways(isDry, id, targetStatuses, timeoutSeconds) ==
    [IdleWaiter EXCEPT !.st = "loop", !.id = id, !.targetStatuses = targetStatuses,
                       !.timeoutSeconds = EffectiveTimeout(timeoutSeconds)]

\* lines 131-140 and 184-188: the call itself; the polling runs in the apply
StartWaiter(isDry, id, targetStatuses, timeoutSeconds) ==
    IF isDry
    THEN [IdleWaiter EXCEPT !.st = "undefined"]
    ELSE [IdleWaiter EXCEPT !.st = "loop", !.id = id, !.targetStatuses = targetStatuses,
                            !.timeoutSeconds = EffectiveTimeout(timeoutSeconds)]

\* line 160: Array.prototype.find, the first record with the id, as a set of
\* at most one index
FindIndex(cs, id) ==
    {i \in 1..Len(cs) : cs[i].ClusterId = id /\ \A j \in 1..(i-1) : cs[j].ClusterId # id}

\* the iteration with the budget tested before the status
PollBudgetFirst(w, resp) ==
    LET q == [w EXCEPT !.queries = w.queries + 1] IN
    IF resp.err THEN [q EXCEPT !.st = "ProviderError"]
    ELSE IF ~resp.hasClusters THEN [q EXCEPT !.st = "NotFound"]
    ELSE IF FindIndex(resp.Clusters, w.id) = {} THEN [q EXCEPT !.st = "NotFound"]
    ELSE
        LET cluster == resp.Clusters[CHOOSE i \in FindIndex(resp.Clusters, w.id) : TRUE]
            a == [q EXCEPT !.attempts = w.attempts + 1]
        IN  IF a.attempts > maxAttempts
            THEN [a EXCEPT !.st = "Timeout"]
            ELSE IF cluster.State \in w.targetStatuses
                 THEN [a EXCEPT !.st = "ok",
                                !.snapshot = [clusterStatus |-> cluster.State,
                                              clusterId |-> cluster.ClusterId,
                                         cluster |-> cluster]]
                 ELSE [a EXCEPT !.st = "sleep", !.sleeps = w.sleeps + 1]

\* the iteration with a missing record retried like a status mismatch
PollRetryMissing(w, resp) ==
    LET q == [w EXCEPT !.queries = w.queries + 1] IN
    IF resp.err THEN [q EXCEPT !.st = "ProviderError"]
    ELSE IF ~resp.hasClusters THEN [q EXCEPT !.st = "NotFound"]
    ELSE
        LET a == [q EXCEPT !.attempts = w.attempts + 1] IN
        IF \E i \in FindIndex(resp.Clusters, w.id) :
               resp.Clusters[i].State \in w.targetStatuses
        THEN LET cluster == resp.Clusters[CHOOSE i \in FindIndex(resp.Clusters, w.id) : TRUE]
             IN  [a EXCEPT !.st = "ok",
                           !.snapshot = [clusterStatus |-> cluster.State,
                                         clusterId |-> cluster.ClusterId,
                                         cluster |-> cluster]]
        ELSE IF a.attempts > maxAttempts
             THEN [a EXCEPT !.st = "Timeout"]
             ELSE [a EXCEPT !.st = "sleep", !.sleeps = w.sleeps + 1]

\* the iteration with the budget derived from timeoutSeconds
PollDerivedBudget(w, resp) ==
    LET q == [w EXCEPT !.queries = w.queries + 1] IN
    IF resp.err THEN [q EXCEPT !.st = "ProviderError"]
    ELSE IF ~resp.hasClusters THEN [q EXCEPT !.st = "NotFound"]
    ELSE IF FindIndex(resp.Clusters, w.id) = {} THEN [q EXCEPT !.st = "NotFound"]
    ELSE
        LET cluster == resp.Clusters[CHOOSE i \in FindIndex(resp.Clusters, w.id) : TRUE]
            a == [q EXCEPT !.attempts = w.attempts + 1]
        IN  IF cluster.State \in w.targetStatuses
            THEN [a EXCEPT !.st = "ok",
                           !.snapshot = [clusterStatus |-> cluster.State,
                                         clusterId |-> cluster.ClusterId,
                                         cluster |-> cluster]]
            ELSE IF a.attempts > w.timeoutSeconds \div DelaySeconds
                 THEN [a EXCEPT !.st = "Timeout"]
                 ELSE [a EXCEPT !.st = "sleep", !.sleeps = w.sleeps + 1]

\* the iteration with a rejected query retried like a status mismatch
PollRetryError(w, resp) ==
    LET q == [w EXCEPT !.queries = w.queries + 1] IN
    IF resp.err THEN [q EXCEPT !.st = "sleep", !.sleeps = w.sleeps + 1]
    ELSE IF ~resp.hasClusters THEN [q EXCEPT !.st = "NotFound"]
    ELSE IF FindIndex(resp.Clusters, w.id) = {} THEN [q EXCEPT !.st = "NotFound"]
    ELSE
        LET cluster == resp.Clusters[CHOOSE i \in FindIndex(resp.Clusters, w.id) : TRUE]
            a == [q EXCEPT !.attempts = w.attempts + 1]
        IN  IF cluster.State \in w.targetStatuses
            THEN [a EXCEPT !.st = "ok",
                           !.snapshot = [clusterStatus |-> cluster.State,
                                         clusterId |-> cluster.ClusterId,
                                         cluster |-> cluster]]
            ELSE IF a.attempts > maxAttempts
                 THEN [a EXCEPT !.st = "Timeout"]
                 ELSE [a EXCEPT !.st = "sleep", !.sleeps = w.sleeps + 1]

\* the iteration taking the first record of the listing, whatever its id
PollFirstRecord(w, resp) ==
    LET q == [w EXCEPT !.queries = w.queries + 1] IN
    IF resp.err THEN [q EXCEPT !.st = "ProviderError"]
    ELSE IF ~resp.hasClusters THEN [q EXCEPT !.st = "NotFound"]
    ELSE IF Len(resp.Clusters) = 0 THEN [q EXCEPT !.st = "NotFound"]
    ELSE
        LET cluster == resp.Clusters[1]
            a == [q EXCEPT !.attempts = w.attempts + 1]
        IN  IF cluster.State \in w.targetStatuses
            THEN [a EXCEPT !.st = "ok",
                           !.snapshot = [clusterStatus |-> cluster.State,
                                         clusterId |-> cluster.ClusterId,
                                         cluster |-> cluster]]
            ELSE IF a.attempts > maxAttempts
                 THEN [a EXCEPT !.st = "Timeout"]
                 ELSE [a EXCEPT !.st = "sleep", !.sleeps = w.sleeps + 1]

\* the iteration without the budget test of lines 174-176
PollNoBudget(w, resp) ==
    LET q == [w EXCEPT !.queries = w.queries + 1] IN
    IF resp.err THEN [q EXCEPT !.st = "ProviderError"]
    ELSE IF ~resp.hasClusters THEN [q EXCEPT !.st = "NotFound"]
    ELSE IF FindIndex(resp.Clusters, w.id) = {} THEN [q EXCEPT !.st = "NotFound"]
    ELSE
        LET cluster == resp.Clusters[CHOOSE i \in FindIndex(resp.Clusters, w.id) : TRUE]
            a == [q EXCEPT !.attempts = w.attempts + 1]
        IN  IF cluster.State \in w.targetStatuses
            THEN [a EXCEPT !.st = "ok",
                           !.snapshot = [clusterStatus |-> cluster.State,
                                         clusterId |-> cluster.ClusterId,
                                         cluster |-> cluster]]
            ELSE [a EXCEPT !.st = "sleep", !.sleeps = w.sleeps + 1]

\* lines 147-180: one iteration of while (true), from the query to the sleep,
\* the return or the throw
Poll(w, resp) ==
    LET q == [w EXCEPT !.queries = w.queries + 1] IN
    IF resp.err THEN [q EXCEPT !.st = "ProviderError"]
    ELSE IF ~resp.hasClusters THEN [q EXCEPT !.st = "NotFound"]
    ELSE IF FindIndex(resp.Clusters, w.id) = {} THEN [q EXCEPT !.st = "NotFound"]
    ELSE
        LET cluster == resp.Clusters[CHOOSE i \in FindIndex(resp.Clusters, w.id) : TRUE]
            a == [q EXCEPT !.attempts = w.attempts + 1]
        IN  IF cluster.State \in w.targetStatuses
            THEN [a EXCEPT !.st = "ok",
                           !.snapshot = [clusterStatus |-> cluster.State,
                                         clusterId |-> cluster.ClusterId,
                                         cluster |-> cluster]]
            ELSE IF a.attempts > maxAttempts
                 THEN [a EXCEPT !.st = "Timeout"]
                 ELSE [a EXCEPT !.st = "sleep", !.sleeps = w.sleeps + 1]

\* the callback with attempts kept in one counter shared by all invocations
QuerySharedCounter(c, resp) ==
    /\ clusterIdKnown
    /\ waiter[c].st = "loop"
    /\ LET p == Poll(waiter[c], resp) IN
       waiter' = [d \in Calls |->
                    IF d = c THEN p
                    ELSE IF waiter[d].st \in {"loop", "sleep"}
                         THEN [waiter[d] EXCEPT !.attempts = p.attempts]
                         ELSE waiter[d]]
    /\ UNCHANGED <<dryRun, pc, clusterIdKnown, signedCert, initApply, initCalls, hsm2, script>>

\* the apply's callback runs one iteration (the id has resolved)
Query(c, resp) ==
    /\ clusterIdKnown
    /\ waiter[c].st = "loop"
    /\ waiter' = [waiter EXCEPT ![c] = Poll(waiter[c], resp)]
    /\ UNCHANGED <<dryRun, pc, clusterIdKnown, signedCert, initApply, initCalls, hsm2, script>>

\* lines 179, 191-195: the timer of sleep(10000) fires
Wake(c) ==
    /\ waiter[c].st = "sleep"
    /\ waiter' = [waiter EXCEPT ![c].st = "loop"]
    /\ UNCHANGED <<dryRun, pc, clusterIdKnown, signedCert, initApply, initCalls, hsm2, script>>

-----------------------------------------------------------------------------
(* The workflow: export = (lines 9-94) and initializeHsmCluster (104-127) *)

\* lines 14-38: the resources are declared (the engine creates them on its
\* own schedule) and getHsmClusterStatus is called for UNINITIALIZED; the
\* await of line 38 is over as soon as the function has returned its Outputs
MainGetStatus ==
    /\ pc = "L38"
    /\ pc' = "L39"
    /\ waiter' = [waiter EXCEPT ![1] = StartWaiter(dryRun, TheClusterId, {"UNINITIALIZED"}, 0)]
    /\ UNCHANGED <<dryRun, clusterIdKnown, signedCert, initApply, initCalls, hsm2, script>>

\* lines 39-77: keys, the CA and the LocallySignedCert are declared; the
\* certificate's certRequestPem is the CSR of the snapshot of line 38
MainDeclareCerts ==
    /\ pc = "L39"
    /\ pc' = "L80"
    /\ signedCert' = "declared"
    /\ UNCHANGED <<dryRun, clusterIdKnown, waiter, initApply, initCalls, hsm2, script>>

\* line 80, lines 104-127: initializeHsmCluster returns undefined on a dry
\* run; otherwise it registers the apply that sends the command and calls
\* getHsmClusterStatus for INITIALIZED
MainInitialize ==
    /\ pc = "L80"
    /\ pc' = "L83"
    /\ IF dryRun
       THEN /\ initApply' = "skipped"
            /\ UNCHANGED waiter
       ELSE /\ initApply' = "registered"
            /\ waiter' = [waiter EXCEPT ![2] = StartWaiter(dryRun, TheClusterId, {"INITIALIZED"}, 0)]
    /\ UNCHANGED <<dryRun, clusterIdKnown, signedCert, initCalls, hsm2, script>>

\* lines 83-86: hsm2 is declared; its clusterId is the snapshot's of line 80
MainDeclareHsm2 ==
    /\ pc = "L83"
    /\ pc' = "L88"
    /\ hsm2' = "declared"
    /\ UNCHANGED <<dryRun, clusterIdKnown, waiter, signedCert, initApply, initCalls, script>>

\* lines 88-93
MainReturn ==
    /\ pc = "L88"
    /\ pc' = "done"
    /\ UNCHANGED <<dryRun, clusterIdKnown, waiter, signedCert, initApply, initCalls, hsm2, script>>

\* lines 18-21: cluster.id resolves (the engine has created the cluster, or
\* knows the id of an existing one)
ClusterCreated ==
    /\ pc # "harness"
    /\ ~clusterIdKnown
    /\ clusterIdKnown' = TRUE
    /\ UNCHANGED <<dryRun, pc, waiter, signedCert, initApply, initCalls, hsm2, script>>

\* lines 61-77: hsmSignedCert.certPem resolves once the engine has created
\* the certificate, whose input clusterCsr resolves with the snapshot of the
\* wait for UNINITIALIZED
SignCert ==
    /\ ~dryRun
    /\ signedCert = "declared"
    /\ waiter[1].st = "ok"
    /\ signedCert' = "resolved"
    /\ UNCHANGED <<dryRun, pc, clusterIdKnown, waiter, initApply, initCalls, hsm2, script>>

\* the command sent as soon as the cluster id is known
InitializeClusterOnIdAlone ==
    /\ initApply = "registered"
    /\ clusterIdKnown
    /\ initCalls' = initCalls + 1
    /\ \E r \in {"done", "failed"} : initApply' = r
    /\ UNCHANGED <<dryRun, pc, clusterIdKnown, waiter, signedCert, hsm2, script>>

\* the command sent again on every run of the callback
InitializeClusterAgain ==
    /\ initApply \in {"registered", "done"}
    /\ clusterIdKnown
    /\ signedCert = "resolved"
    /\ initCalls' = initCalls + 1
    /\ \E r \in {"done", "failed"} : initApply' = r
    /\ UNCHANGED <<dryRun, pc, clusterIdKnown, waiter, signedCert, hsm2, script>>

\* lines 115-123: the callback of pulumi.all([clusterId, signedCert,
\* trustAnchor]).apply runs once, when the three have resolved, and sends
\* initializeCluster, which succeeds or fails
InitializeCluster ==
    /\ initApply = "registered"
    /\ clusterIdKnown
    /\ signedCert = "resolved"
    /\ initCalls' = initCalls + 1
    /\ \E r \in {"done", "failed"} : initApply' = r
    /\ UNCHANGED <<dryRun, pc, clusterIdKnown, waiter, signedCert, hsm2, script>>

\* hsm2 created as soon as the cluster id is known
CreateHsm2OnIdAlone ==
    /\ ~dryRun
    /\ hsm2 = "declared"
    /\ clusterIdKnown
    /\ hsm2' = "created"
    /\ UNCHANGED <<dryRun, pc, clusterIdKnown, waiter, signedCert, initApply, initCalls, script>>

\* lines 83-86: the engine creates hsm2 once its input clusterId, the
\* clusterId of the snapshot of the wait for INITIALIZED, has resolved
CreateHsm2 ==
    /\ ~dryRun
    /\ hsm2 = "declared"
    /\ waiter[2].st = "ok"
    /\ hsm2' = "created"
    /\ UNCHANGED <<dryRun, pc, clusterIdKnown, waiter, signedCert, initApply, initCalls, script>>

\* lines 110-112 and 126: what initializeHsmCluster yields: undefined on a dry
\* run, otherwise the outcome of its call of getHsmClusterStatus; the Output
\* of the apply that sends the command (state, line 115) is not part of it
DriverResult ==
    IF initApply = "none" THEN "not called"
    ELSE IF initApply = "skipped" THEN "undefined"
    ELSE waiter[2].st

\* line 89: the exported clusterState is the clusterStatus Output of
\* uninitializedCluster, the snapshot of the call of line 38 (undefined on a
\* dry run, unresolved until that wait has succeeded)
ExportedClusterState ==
    IF pc # "done" THEN "not returned"
    ELSE IF waiter[1].st = "undefined" THEN "undefined"
    ELSE IF waiter[1].st = "ok" THEN waiter[1].snapshot.clusterStatus
    ELSE "unresolved"

\* lines 23-26: the key "pk"; lines 39-42: the key "cluster-pk"
privateKey == [kind |-> "privateKey", name |-> "pk"]

hsmPrivateKey == [kind |-> "privateKey", name |-> "cluster-pk"]

\* lines 45-59: the self-signed CA certificate, made from the key "pk"
hsmSelfSignedCert ==
    [certPem |-> [kind |-> "certificate", isCa |-> TRUE, key |-> privateKey.name,
                  subject |-> "cluster-selfsigned"]]

\* lines 66-77: the cluster certificate, signed with caPrivateKeyPem for the
\* issuer caCertPem; the resource echoes its inputs as outputs
hsmSignedCert ==
    [certPem |-> [kind |-> "certificate", isCa |-> FALSE,
                  signedWithKey |-> hsmPrivateKey.name,
                  issuer |-> hsmSelfSignedCert.certPem.subject,
                  subject |-> "cluster-cert"],
     caPrivateKeyPem |-> hsmPrivateKey,
     caCertPem |-> hsmSelfSignedCert.certPem]

\* line 80 and lines 116-120: the request of the initializeCluster command
InitRequest ==
    [ClusterId |-> TheClusterId,
     SignedCert |-> hsmSignedCert.certPem,
     TrustAnchor |-> hsmSignedCert.caPrivateKeyPem]

\* a describeClusters call of the workflow: the provider may answer anything
ProviderQuery(c) == \E resp \in Responses : Query(c, resp)

Init ==
    /\ dryRun \in BOOLEAN
    /\ pc = "L38"
    /\ clusterIdKnown = FALSE
    /\ waiter = [c \in Calls |-> IdleWaiter]
    /\ signedCert = "none"
    /\ initApply = "none"
    /\ initCalls = 0
    /\ hsm2 = "none"
    /\ script = NoScript

Next ==
    \/ MainGetStatus
    \/ MainDeclareCerts
    \/ MainInitialize
    \/ MainDeclareHsm2
    \/ MainReturn
    \/ ClusterCreated
    \/ SignCert
    \/ InitializeCluster
    \/ CreateHsm2
    \/ \E c \in Calls : ProviderQuery(c) \/ Wake(c)

Spec == Init /\ [][Next]_vars

-----------------------------------------------------------------------------
(* SpecWaiter: getHsmClusterStatus called twice on a resolved id *)

Call(c) ==
    /\ pc = "harness"
    /\ waiter[c].st = "idle"
    /\ \E T \in TargetSets, t \in TimeoutInputs :
          waiter' = [waiter EXCEPT ![c] = StartWaiter(dryRun, TheClusterId, T, t)]
    /\ UNCHANGED <<dryRun, pc, clusterIdKnown, signedCert, initApply, initCalls, hsm2, script>>

ScriptedQuery(c) == Query(c, ScriptAt(script, waiter[c].queries + 1))

InitWaiter ==
    /\ dryRun \in BOOLEAN
    /\ pc = "harness"
    /\ clusterIdKnown = TRUE
    /\ waiter = [c \in Calls |-> IdleWaiter]
    /\ signedCert = "none"
    /\ initApply = "none"
    /\ initCalls = 0
    /\ hsm2 = "none"
    /\ script \in Scripts

NextWaiter == \E c \in Calls : Call(c) \/ ScriptedQuery(c) \/ Wake(c)

SpecWaiter == InitWaiter /\ [][NextWaiter]_vars

\* One invocation whose queries and sleeps all come back: a pending
\* describeClusters call is eventually answered (line 147) and the timer of
\* a pending sleep eventually fires (lines 191-195)
NextOne == Call(1) \/ ScriptedQuery(1) \/ Wake(1)

SpecWaiterFair ==
    /\ InitWaiter
    /\ [][NextOne]_vars
    /\ WF_vars(ScriptedQuery(1))
    /\ WF_vars(Wake(1))

-----------------------------------------------------------------------------
(* What a response says about a cluster id *)

Found(resp, id) == ~resp.err /\ resp.hasClusters /\ FindIndex(resp.Clusters, id) # {}

Missing(resp, id) == ~resp.err /\ ~Found(resp, id)

StateOf(resp, id) == resp.Clusters[CHOOSE i \in FindIndex(resp.Clusters, id) : TRUE].State

Reports(resp, id, T) == Found(resp, id) /\ StateOf(resp, id) \in T

Started(w) == w.st \notin {"idle", "undefined"}

\* the N (at most one) such that the script's N-th response is the first to
\* report a status in w's targets, every earlier one reporting some status
FirstTarget(w) ==
    {N \in 1..(MaxRun + 1) :
        /\ Reports(ScriptAt(script, N), w.id, w.targetStatuses)
        /\ \A j \in 1..(N - 1) :
              /\ Found(ScriptAt(script, j), w.id)
              /\ ~Reports(ScriptAt(script, j), w.id, w.targetStatuses)}

ReturnsOn(w, N) ==
    /\ w.queries <= N
    /\ w.queries = N => w.st = "ok"
    /\ Terminal(w) =>
          /\ w.st = "ok"
          /\ w.queries = N
          /\ w.snapshot.clusterStatus = StateOf(ScriptAt(script, N), w.id)

-----------------------------------------------------------------------------
(* Claims checked under SpecWaiter *)

C2_TimeoutAfterMaxAttempts ==
    \A c \in Calls : waiter[c].st = "Timeout" =>
        /\ waiter[c].queries = maxAttempts
        /\ waiter[c].sleeps = waiter[c].queries - 1

\* C7: a query answered without a cluster collection, or without a record of
\* the requested id, ends the waiter with NotFound on that query: no sleep
\* and no query follow it (one query and no sleep when it is the first).
C7_NotFoundImmediately ==
    \A c \in Calls : \A k \in 1..waiter[c].queries :
        Missing(ScriptAt(script, k), waiter[c].id) =>
            /\ waiter[c].st = "NotFound"
            /\ waiter[c].queries = k
            /\ waiter[c].sleeps = k - 1

\* C7 witness: NotFound on the first query, whose listing holds only another
\* cluster's record; and NotFound on a later query.
C7_Witness ==
    /\ \E c \in Calls :
          /\ waiter[c].st = "NotFound"
          /\ waiter[c].queries = 1
          /\ waiter[c].sleeps = 0
          /\ script.n > 0
          /\ script.first = Listing(<<Rec(OtherClusterId, "UNINITIALIZED")>>)
    /\ \E c \in Calls :
          /\ waiter[c].st = "NotFound"
          /\ waiter[c].queries = 1

\* C8 (as stated): a waiter does not fail with Timeout before timeoutSeconds /
\* DelaySeconds queries have reported a non-target status.
C8_TimeoutHonoursAllotment ==
    \A c \in Calls : waiter[c].st = "Timeout" =>
        waiter[c].attempts * DelaySeconds >= waiter[c].timeoutSeconds

-----------------------------------------------------------------------------
(* Claims checked under Spec *)

\* C3 (as stated): no query of the wait for INITIALIZED is made before the
\* initializeCluster command has been sent.
C3_InitializedPollAfterCommand ==
    waiter[2].queries > 0 => initCalls > 0

\* C4: the initializeCluster command is sent only when not on a dry run and
\* after the wait for UNINITIALIZED has returned a snapshot whose status is
\* UNINITIALIZED, from which the signed certificate has been made; it is
\* never sent when that wait has failed.
C4_CommandAfterUninitialized ==
    /\ initCalls > 0 =>
          /\ ~dryRun
          /\ waiter[1].st = "ok"
          /\ waiter[1].snapshot.clusterStatus \in {"UNINITIALIZED"}
          /\ signedCert = "resolved"
    /\ waiter[1].st \in {"NotFound", "Timeout", "ProviderError"} => initCalls = 0

\* C4 witness: the command has been sent.
C4_Witness ==
    /\ initCalls = 1
    /\ waiter[1].st = "ok"
    /\ waiter[1].queries > 1

\* C5: the initializeCluster command is sent at most once, however many
\* queries and sleeps the wait for INITIALIZED goes through.
C5_CommandAtMostOnce ==
    initCalls <= 1

\* C5 witness: the command was sent once and the wait for INITIALIZED went
\* through its whole budget of queries and failed.
C5_Witness ==
    /\ initCalls = 1
    /\ waiter[2].st = "Timeout"
    /\ waiter[2].sleeps = maxAttempts

\* C6: on a dry run getHsmClusterStatus and initializeHsmCluster return
\* undefined at once: no query, no sleep and no command ever happens.
C6_DryRunNoProviderCall ==
    dryRun =>
        /\ \A c \in Calls :
              /\ waiter[c].queries = 0
              /\ waiter[c].sleeps = 0
              /\ waiter[c].st \in {"idle", "undefined"}
        /\ initCalls = 0
        /\ pc # "L38" => waiter[1].st = "undefined"
        /\ pc \in {"L83", "L88", "done"} => initApply = "skipped" /\ waiter[2].st = "idle"

\* C6 witness: a dry run that has run to its end with the cluster id known.
C6_Witness ==
    dryRun /\ pc = "done" /\ clusterIdKnown

\* C10: hsm2 is created only when not on a dry run and after the wait for
\* INITIALIZED has returned a snapshot whose status is INITIALIZED; it is
\* never created when that wait has failed.
C10_Hsm2AfterInitialized ==
    /\ hsm2 = "created" =>
          /\ ~dryRun
          /\ waiter[2].st = "ok"
          /\ waiter[2].snapshot.clusterStatus = "INITIALIZED"
    /\ waiter[2].st \in {"NotFound", "Timeout", "ProviderError"} => hsm2 # "created"

\* C10 witness: hsm2 has been created.
C10_Witness ==
    /\ hsm2 = "created"
    /\ waiter[2].queries > 1

-----------------------------------------------------------------------------
(* Further claims checked under Spec *)

\* C11 (as stated): when the initializeCluster command has failed, the
\* invocation of initializeHsmCluster does not complete successfully with a
\* snapshot.
C11_CommandFailurePropagates ==
    initApply = "failed" => DriverResult # "ok"

-----------------------------------------------------------------------------
(* Further claims checked under SpecWaiter *)

\* C12: a rejected describeClusters query ends the waiter with that error on
\* that query: no sleep and no query follow it, whatever the attempt count.
C12_ProviderErrorImmediately ==
    \A c \in Calls : \A k \in 1..waiter[c].queries :
        ScriptAt(script, k).err =>
            /\ waiter[c].st = "ProviderError"
            /\ waiter[c].queries = k
            /\ waiter[c].sleeps = k - 1
            /\ waiter[c].attempts = k - 1

\* C12 witness: a waiter whose query was rejected after three mismatches.
C12_Witness ==
    \E c \in Calls :
        /\ waiter[c].st = "ProviderError"
        /\ waiter[c].attempts = 3
        /\ waiter[c].queries = 4

\* C13: a waiter that has succeeded holds the record of its last query, whose
\* status is one of its targets and whose id is the requested one; a waiter
\* holds a snapshot only when it has succeeded, and a started waiter that has
\* ended has either succeeded or failed.
C13_SnapshotIsLastRecord ==
    \A c \in Calls :
        LET w == waiter[c]
            last == ScriptAt(script, w.queries)
        IN  /\ w.st = "ok" =>
                  /\ Found(last, w.id)
                  /\ w.snapshot.cluster \in {last.Clusters[i] : i \in 1..Len(last.Clusters)}
                  /\ w.snapshot.cluster.ClusterId = w.id
                  /\ w.snapshot.clusterId = w.id
                  /\ w.snapshot.clusterStatus = w.snapshot.cluster.State
                  /\ w.snapshot.clusterStatus \in w.targetStatuses
            /\ w.st # "ok" => w.snapshot = NoSnapshot
            /\ (Started(w) /\ Terminal(w)) =>
                  w.st \in {"ok", "NotFound", "Timeout", "ProviderError"}

\* C13 witness: a waiter that succeeded on a listing that also holds another
\* cluster's record.
C13_Witness ==
    \E c \in Calls :
        /\ waiter[c].st = "ok"
        /\ waiter[c].queries > 1
        /\ Len(ScriptAt(script, waiter[c].queries).Clusters) = 2

-----------------------------------------------------------------------------
(* Claims checked under SpecWaiterFair *)

\* C14: when every query and every sleep comes back, a started waiter
\* eventually ends; it never makes more than maxAttempts + 1 queries; and
\* when no query is rejected it ends in success with a target status, in
\* NotFound or in Timeout.
C14_WaiterTerminates ==
    /\ \A c \in Calls : (waiter[c].st \in {"loop", "sleep"}) ~> Terminal(waiter[c])
    /\ [](\A c \in Calls : waiter[c].queries <= maxAttempts + 1)
    /\ [](\A c \in Calls :
            (/\ Started(waiter[c]) /\ Terminal(waiter[c])
             /\ ~script.first.err /\ ~script.then.err) =>
                \/ /\ waiter[c].st = "ok"
                   /\ waiter[c].snapshot.clusterStatus \in waiter[c].targetStatuses
                \/ waiter[c].st = "NotFound"
                \/ waiter[c].st = "Timeout")

\* C14 witness: a waiter that ended with Timeout after its whole budget, on a
\* provider that never rejects a query.
C14_Witness ==
    /\ waiter[1].st = "Timeout"
    /\ waiter[1].queries = maxAttempts + 1
    /\ ~script.first.err /\ ~script.then.err

-----------------------------------------------------------------------------
(* Further claims checked under Spec (exports and command input) *)

\* C15 (as stated): once the program has returned and both waits have
\* succeeded, the exported clusterState is the status seen by the last wait,
\* the wait for INITIALIZED.
C15_ExportsFinalStatus ==
    (pc = "done" /\ waiter[1].st = "ok" /\ waiter[2].st = "ok") =>
        ExportedClusterState = waiter[2].snapshot.clusterStatus

\* C16 (as stated): the TrustAnchor of a command that has been sent is a
\* certificate, the CA certificate that issued the SignedCert of the same
\* command.
C16_TrustAnchorIsCaCertificate ==
    initCalls > 0 =>
        /\ InitRequest.TrustAnchor.kind = "certificate"
        /\ InitRequest.TrustAnchor = hsmSignedCert.caCertPem

-----------------------------------------------------------------------------
(* Further claims checked under SpecWaiter (attempt counter, independence) *)

\* C17 (as stated): the attempt counter of every waiter starts at 0, changes
\* only by growing by 1 on a query that finds the cluster's record, and never
\* exceeds maxAttempts.
C17_AttemptsBounded ==
    /\ \A c \in Calls : waiter[c].attempts = 0
    /\ [][\A c \in Calls :
            \/ waiter'[c].attempts = waiter[c].attempts
            \/ /\ waiter'[c].attempts = waiter[c].attempts + 1
               /\ waiter'[c].queries = waiter[c].queries + 1
               /\ Found(ScriptAt(script, waiter'[c].queries), waiter[c].id)]_vars
    /\ [](\A c \in Calls : waiter[c].attempts <= maxAttempts)

\* the waiter w0 after k queries of the script made with no other invocation
\* around (st "sleep" standing for a waiter between two queries)
RECURSIVE Alone(_, _)
Alone(w0, k) ==
    IF k = 0 THEN w0
    ELSE LET p == Alone(w0, k - 1) IN
         IF p.st \in {"loop", "sleep"}
         THEN Poll([p EXCEPT !.st = "loop"], ScriptAt(script, k))
         ELSE p

Between(w) == [w EXCEPT !.st = IF w.st = "loop" /\ w.queries > 0 THEN "sleep" ELSE w.st]

\* C18: with two invocations in flight and their steps interleaved in any
\* order, each invocation is, after its k-th query, exactly where it would be
\* after k queries made alone (attempts, sleeps, outcome, snapshot); a step
\* changes one invocation only, and an invocation starts with attempts = 0.
C18_WaitersIndependent ==
    /\ [](\A c \in Calls : Started(waiter[c]) =>
            Between(waiter[c]) =
                Alone(StartWaiter(FALSE, waiter[c].id, waiter[c].targetStatuses,
                                  waiter[c].timeoutSeconds),
                      waiter[c].queries))
    /\ [][\A c \in Calls : waiter'[c] # waiter[c] =>
            /\ \A d \in Calls \ {c} : waiter'[d] = waiter[d]
            /\ waiter[c].st = "idle" =>
                  waiter'[c].attempts = 0 /\ waiter'[c].queries = 0]_vars

\* C18 witness: two invocations with different targets, both between two
\* queries, at different attempt counts.
C18_Witness ==
    /\ waiter[1].st = "sleep"
    /\ waiter[2].st = "loop"
    /\ waiter[1].attempts = 4
    /\ waiter[2].attempts = 2
    /\ waiter[1].targetStatuses # waiter[2].targetStatuses

\* C19: a waiter fails with Timeout only on a query that reported a status
\* outside its targets; a query that reports a target status yields success,
\* also when it is the last query of the budget.
C19_TargetTestBeforeBudget ==
    \A c \in Calls :
        LET w == waiter[c]
            last == ScriptAt(script, w.queries)
        IN  /\ w.st = "Timeout" =>
                  /\ Found(last, w.id)
                  /\ ~Reports(last, w.id, w.targetStatuses)
            /\ (w.queries > 0 /\ Reports(last, w.id, w.targetStatuses)) => w.st = "ok"

\* C19 witness: success on the query that brought attempts past maxAttempts.
C19_Witness ==
    \E c \in Calls :
        /\ waiter[c].st = "ok"
        /\ waiter[c].attempts > maxAttempts
        /\ waiter[c].timeoutSeconds = 30

====
